---- MODULE Spec2Model ----
(***************************************************************************)
(* Batch enrichment pipeline of recall-etl-func/etl_az_openai_gen_ai.py:   *)
(* process_food_recall_data, process_batch and                             *)
(* generate_summary_with_retry, as a state machine whose steps are the     *)
(* stretches of code between two awaits.                                   *)
(***************************************************************************)
EXTENDS Integers, Sequences, FiniteSets, TLC

(* ---------------------------------------------------------------- bounds *)
\* largest number of records in the downloaded blob
MaxItems == 2
\* largest batch_size argument
MaxBatch == 2
\* largest retry_count for which the backoff delay is computed
MaxRetryCount == 8
\* time.time() % 1 is taken in steps of 1 / JitterSteps
JitterSteps == 8

(* ------------------------------------------------------ program constants *)
\* generate_summary_with_retry(recall_item, max_retries: int = 3, ...)
max_retries == 3
\* generate_summary_with_retry(..., base_delay: float = 2.0)
base_delay == 2
\* delay = min(60, ...)
backoff_cap == 60

(* ------------------------------------------------------------ data values *)
\* RecallItem.summary: str = None
NoSummary == "None"
\* RecallItem.error: str = None
NoError == << >>
\* no entity with this RowKey in the table
Absent == "absent"
\* a summary an earlier run stored / the text a generation call returns /
\* the text of a reply that is empty once stripped
CachedText == "cached"
GeneratedText == "generated"
BlankText == ""

\* Python truthiness of an optional string
Truthy(s) == s # NoSummary /\ s # BlankText
\* Python truthiness of RecallItem.error (every message written is non-empty)
ErrorSet(e) == e # NoError

Min(a, b) == IF a < b THEN a ELSE b

\* recall_number is the unique key of a record: record k carries key k
Ids == 1..MaxItems
Inputs == { [ k \in 1..n |-> k ] : n \in 0..MaxItems }
BatchSizes == (0 - 1)..MaxBatch

VARIABLES
  data,          \* the records of the blob, as their recall_number
  batch_size,    \* argument of process_food_recall_data
  oai_config,    \* whether the four AZURE_OAI_* variables are all set
  store,         \* table recallsummaries: RowKey -> summary, or Absent
  pc,            \* position of process_food_recall_data / process_batch
  table_client,  \* whether get_table_client returned a client
  recall_items,  \* the RecallItem objects, by position
  i,             \* loop variable of the batching loop
  lo, hi,        \* batch = recall_items[lo+1 .. hi] (1-based positions)
  j,             \* position of the item whose lookup is awaited
  tasks,         \* the generate_summary_with_retry task of each item
  update_tasks,  \* positions of the items whose upsert was prepared
  results,       \* positions of the items in results, in order
  batches,       \* every batch handed to process_batch, in order
  pauses,        \* number of asyncio.sleep(10) calls made
  write_failed,  \* whether some upsert of this run raised
  report,        \* the counts logged at the end of the run
  success,       \* the value process_food_recall_data returned, once done
  run,           \* 1 in the first run over the input, 2 in the second
  prev,          \* what the first run left: see Rerun
  retry_k,       \* retry_count at line 153, when a delay is computed
  clock,         \* time.time() % 1 at line 153, in JitterSteps-ths
  delay          \* the delay computed, in units of 1 / (2 * JitterSteps) s

vars ==
  << data, batch_size, oai_config, store, pc, table_client, recall_items, i,
     lo, hi, j, tasks, update_tasks, results, batches, pauses, write_failed,
     report, success, run, prev, retry_k, clock, delay >>

\* the computation of a backoff delay, which Spec leaves out: there a sleep
\* simply ends
backoff == << retry_k, clock, delay >>
NoDelay == 0 - 1
NoBackoff == retry_k = 0 /\ clock = 0 /\ delay = NoDelay

\* what a run never changes
runvars == << data, batch_size, oai_config, run, prev, backoff >>

N == Len(recall_items)

(* -------------------------------------------------------------- RecallItem *)
\* RecallItem(recall_id=recall_id, data=recall); st is the state of the
\* item in the words of the specification, set by the step that decides it
NewItem(id) ==
  [ recall_id |-> id, summary |-> NoSummary, processed |-> FALSE,
    error |-> NoError, st |-> "Pending", lookup |-> "none" ]

\* the coroutine of one item: retry_count is its local; calls, delays and
\* last count its create() calls and its sleeps and keep its last reply
NewTask ==
  [ pc |-> "none", retry_count |-> 0, calls |-> 0, delays |-> 0,
    last |-> "none" ]

NoReport == [ successful |-> 0 - 1, failed |-> 0 - 1, skipped |-> 0 - 1 ]

\* the state in which process_food_recall_data is entered
Entry ==
  /\ pc = "start"
  /\ table_client = FALSE
  /\ recall_items = << >>
  /\ i = 0
  /\ lo = 0
  /\ hi = 0
  /\ j = 0
  /\ tasks = << >>
  /\ update_tasks = << >>
  /\ results = << >>
  /\ batches = << >>
  /\ pauses = 0
  /\ write_failed = FALSE
  /\ report = NoReport
  /\ success = FALSE

\* reported: how many items the run reported on; ok: the positions it
\* resolved with a non-empty summary; failed: the positions whose generation
\* failed, the table holding no record of their id when they were looked up;
\* write_failed: whether an upsert raised
NoRun == [ reported |-> 0, ok |-> {}, failed |-> {}, write_failed |-> FALSE ]

Init ==
  /\ data \in Inputs
  /\ batch_size \in BatchSizes
  /\ oai_config \in BOOLEAN
  /\ store \in { f \in [Ids -> {Absent, CachedText}] :
                   \A k \in Ids : f[k] # Absent => \E p \in 1..Len(data) : data[p] = k }
  /\ Entry
  /\ run = 1
  /\ prev = NoRun
  /\ NoBackoff

(* ------------------------------------------------ process_food_recall_data *)
\* The locals of process_food_recall_data and process_batch as one record,
\* so that a stretch of code between two awaits is a function on it.
Cur ==
  [ pc |-> pc, i |-> i, lo |-> lo, hi |-> hi, j |-> j, results |-> results,
    batches |-> batches, report |-> report, success |-> success,
    items |-> recall_items ]

Become(s) ==
  /\ pc' = s.pc
  /\ i' = s.i
  /\ lo' = s.lo
  /\ hi' = s.hi
  /\ j' = s.j
  /\ results' = s.results
  /\ batches' = s.batches
  /\ report' = s.report
  /\ success' = s.success
  /\ recall_items' = s.items

\* if item.processed and not item.error / if item.error / if not
\* item.processed and not item.error   (lines 306-308)
IsSuccessful(item) == item.processed /\ ~ErrorSet(item.error)
IsFailed(item) == ErrorSet(item.error)
IsSkipped(item) == ~item.processed /\ ~ErrorSet(item.error)

\* the counts logged at the end of a run
Counts(items, res) ==
  [ successful |->
      Cardinality({ x \in 1..Len(res) : IsSuccessful(items[res[x]]) }),
    failed |->
      Cardinality({ x \in 1..Len(res) : IsFailed(items[res[x]]) }),
    skipped |->
      Cardinality({ x \in 1..Len(res) : IsSkipped(items[res[x]]) }) ]

\* except Exception as e: ... return False   (lines 325-327), and line 259
Aborted(s) == [ s EXCEPT !.pc = "done", !.success = FALSE ]

\* a run that returns failed == 0 instead
FinishedUnlessFailed(s) ==
  [ s EXCEPT !.pc = "done",
             !.report = Counts(s.items, s.results),
             !.success = (Counts(s.items, s.results).failed = 0) ]

\* the loop is over: the counts, table_client.close(), return successful > 0
Finished(s) ==
  [ s EXCEPT !.pc = "done",
             !.report = Counts(s.items, s.results),
             !.success = (Counts(s.items, s.results).successful > 0) ]

\* whether range(0, n, batch_size) yields ii, for batch_size # 0
InRange(ii, n) ==
  IF batch_size > 0 THEN ii < n ELSE ii > n

\* the slice recall_items[i:i+batch_size-1], which drops an item per batch
SliceEndShort(ii, n) == Min(ii + batch_size - 1, n)

\* batch = recall_items[i:i+batch_size], as the positions ii+1 .. SliceEnd
SliceEnd(ii, n) == Min(ii + batch_size, n)

\* the items of a batch handed back last first
BatchPositionsReversed(a, b) == [ k \in 1..(b - a) |-> b + 1 - k ]

\* the positions of the items of recall_items[a:b], in order
BatchPositions(a, b) == [ k \in 1..(b - a) |-> a + k ]

\* the comparison off by one: if i + batch_size <= len(recall_items)
MoreBatchesOrLast(ii, n) == ii + batch_size <= n

\* if i + batch_size < len(recall_items): ... await asyncio.sleep(10)
MoreBatches(ii, n) == ii + batch_size < n

\* process_batch returned: results.extend(processed_batch), then the pause
\* before the next batch or the end of the loop   (lines 298-303)
Returned(s) ==
  LET t == [ s EXCEPT !.results = @ \o BatchPositions(s.lo, s.hi) ]
  IN  IF MoreBatches(t.i, Len(t.items))
        THEN [ t EXCEPT !.pc = "pause" ]
        ELSE Finished(t)

(* ------------------------------------------------------------ process_batch *)
SkipReason == << "Skipped due to unavailable Table Storage" >>

\* item.processed = False; item.error = "Skipped due to unavailable ..."
SkipItem(item) ==
  [ item EXCEPT !.processed = FALSE, !.error = SkipReason, !.st = "Skipped" ]

\* iteration i = ii of the loop: the slice, the call of process_batch and
\* its code up to the first await   (lines 294-297, 166-181)
Entered(s, ii) ==
  LET n == Len(s.items)
      t == [ s EXCEPT !.i = ii, !.lo = ii, !.hi = SliceEnd(ii, n),
                      !.batches = Append(@, BatchPositions(ii, SliceEnd(ii, n))) ]
  IN  IF ~table_client
        THEN Returned([ t EXCEPT !.items =
                          [ k \in 1..n |->
                              IF k \in (t.lo + 1)..t.hi THEN SkipItem(s.items[k])
                                                         ELSE s.items[k] ] ])
        ELSE [ t EXCEPT !.pc = "lookup", !.j = ii + 1 ]

\* for i in range(0, len(recall_items), batch_size): the first evaluation;
\* range() raises ValueError when batch_size is 0
Looped(s) ==
  IF batch_size = 0 THEN Aborted(s)
  ELSE IF InRange(0, Len(s.items)) THEN Entered(s, 0)
  ELSE Finished(s)

\* table_client = await get_table_client(); if not table_client: return False
GetTableClient ==
  /\ pc = "start"
  /\ \E client \in BOOLEAN :
       /\ table_client' = client
       /\ Become(IF client THEN [ Cur EXCEPT !.pc = "download" ] ELSE Aborted(Cur))
  /\ UNCHANGED << runvars, store, tasks, update_tasks, pauses, write_failed >>

\* for i, recall in enumerate(data): recall_items.append(RecallItem(...))
LoadedItems == [ k \in 1..Len(data) |-> NewItem(data[k]) ]

\* download of the blob, json.load, conversion to RecallItem objects, and
\* the loop up to the first await of the first batch   (lines 261-297)
LoadData ==
  /\ pc = "download"
  /\ \E downloaded \in BOOLEAN :
       IF downloaded
         THEN /\ tasks' = [ k \in 1..Len(data) |-> NewTask ]
              /\ Become(Looped([ Cur EXCEPT !.items = LoadedItems ]))
         ELSE /\ Become(Aborted(Cur))
              /\ UNCHANGED tasks
  /\ UNCHANGED << runvars, store, table_client, update_tasks, pauses,
                  write_failed >>

Batch == (lo + 1)..hi

\* items_found and 'summary' in items_found[0]
Found(id) == store[id] # Absent

\* a hit that forgets item.processed = True
CacheHitUnmarked(item, text) ==
  [ item EXCEPT !.summary = text, !.st = "CacheHit", !.lookup = "hit" ]

\* item.summary = items_found[0]['summary']; item.processed = True
CacheHit(item, text) ==
  [ item EXCEPT !.summary = text, !.processed = TRUE, !.st = "CacheHit",
                !.lookup = "hit" ]

\* a lookup whose exception is recorded on the item as a failure
LookedUpOrFailed(item, returned) ==
  IF item.processed THEN item
  ELSE IF ~returned
    THEN [ item EXCEPT !.error = << "lookup failed" >>, !.st = "Failed",
                       !.lookup = IF Found(item.recall_id) THEN "lost" ELSE "miss" ]
    ELSE IF Found(item.recall_id) THEN CacheHit(item, store[item.recall_id])
    ELSE [ item EXCEPT !.lookup = "miss" ]

\* what the lookup of an item does to it (lines 177-188); lookup = "lost"
\* records that the query raised although the table holds a summary, and
\* lookup = "miss" that it was made and the table holds none
LookedUp(item, returned) ==
  IF item.processed THEN item
  ELSE IF Found(item.recall_id)
    THEN IF returned THEN CacheHit(item, store[item.recall_id])
                     ELSE [ item EXCEPT !.lookup = "lost" ]
    ELSE [ item EXCEPT !.lookup = "miss" ]

\* no filter: every item of the batch is handed to generation
ToProcessWholeBatch(items) == Batch

\* to_process = [item for item in batch if not item.processed]
ToProcess(items) == { k \in Batch : ~items[k].processed }

\* tasks made for every unprocessed item of the whole list
GatheredOverList(items) ==
  [ k \in 1..Len(items) |->
      IF ~items[k].processed THEN [ tasks[k] EXCEPT !.pc = "ready" ]
                             ELSE tasks[k] ]

\* tasks = [generate_summary_with_retry(item) for item in to_process]
Gathered(items) ==
  [ k \in 1..Len(items) |->
      IF k \in ToProcess(items) THEN [ tasks[k] EXCEPT !.pc = "ready" ]
                                ELSE tasks[k] ]

\* the query of item j returns or raises; after the last one of the batch,
\* the code up to asyncio.gather(*tasks)   (lines 176-200)
Lookup ==
  /\ pc = "lookup"
  /\ \E returned \in BOOLEAN :
       LET s == [ Cur EXCEPT !.items[j] = LookedUp(@, returned) ]
       IN  IF j < hi
             THEN /\ Become([ s EXCEPT !.j = j + 1 ])
                  /\ UNCHANGED tasks
             ELSE IF ToProcess(s.items) = {}
               THEN /\ Become(Returned(s))
                    /\ UNCHANGED tasks
               ELSE /\ Become([ s EXCEPT !.pc = "gather" ])
                    /\ tasks' = Gathered(s.items)
  /\ UNCHANGED << runvars, store, table_client, update_tasks, pauses,
                  write_failed >>

(* ---------------------------------------------- generate_summary_with_retry *)
\* str(e) of the exception the attempt-th call of a task raised
ExcMessage(attempt) == attempt

MissingConfig == << "Missing required Azure OpenAI configuration" >>
MaxRetriesError(id, e) == << "Max retries exceeded for", id, e >>
GeneratingError(id, e) == << "Error generating summary for", id, e >>
\* str(result) of an exception that escaped generate_summary_with_retry
EscapedError == << "exception raised outside the retry loop" >>

\* recall_item.error = error_msg; return recall_item   (lines 117-121)
OnMissingConfig(item) ==
  [ item EXCEPT !.error = MissingConfig, !.st = "Skipped" ]

\* recall_item.summary = response...strip(); recall_item.processed = True
OnSuccess(item, text) ==
  [ item EXCEPT !.summary = text, !.processed = TRUE, !.st = "Generated" ]

\* a loop that gives up at the first ServiceRequestError
RetriesExceededAtOnce(retry_count) == retry_count > 0

\* the comparison off by one: if retry_count >= max_retries
RetriesExceededEarly(retry_count) == retry_count >= max_retries

\* if retry_count > max_retries   (after retry_count += 1)
RetriesExceeded(retry_count) == retry_count > max_retries

\* except ServiceRequestError, retries used up   (lines 146-150)
OnExhausted(item, e) ==
  [ item EXCEPT !.error = MaxRetriesError(item.recall_id, e), !.st = "Failed" ]

\* except Exception   (lines 157-162)
OnPermanent(item, e) ==
  [ item EXCEPT !.error = GeneratingError(item.recall_id, e), !.st = "Failed" ]

\* to_process[i].error = str(result)   (line 206)
OnEscaped(item) ==
  [ item EXCEPT !.error = EscapedError, !.st = "Failed" ]

TaskFrame ==
  UNCHANGED << runvars, store, pc, table_client, i, lo, hi, j, update_tasks,
               results, batches, pauses, write_failed, report, success >>

\* the task runs from its start to its first await (lines 93-132)
TaskStart(k) ==
  /\ pc = "gather"
  /\ tasks[k].pc = "ready"
  /\ IF recall_items[k].processed
       THEN /\ tasks' = [ tasks EXCEPT ![k].pc = "returned" ]
            /\ UNCHANGED recall_items
       ELSE IF ~oai_config
         THEN /\ tasks' = [ tasks EXCEPT ![k].pc = "returned" ]
              /\ recall_items' = [ recall_items EXCEPT ![k] = OnMissingConfig(@) ]
         ELSE \E built \in BOOLEAN :
                IF built
                  THEN /\ tasks' = [ tasks EXCEPT ![k].pc = "calling",
                                                  ![k].calls = 1 ]
                       /\ recall_items' = [ recall_items EXCEPT ![k].st = "Generating" ]
                  ELSE \* create_summary_prompt or AsyncAzureOpenAI(...) raises
                       /\ tasks' = [ tasks EXCEPT ![k].pc = "raised" ]
                       /\ UNCHANGED recall_items
  /\ TaskFrame

\* what client.chat.completions.create can do: return a text, return a
\* text that is empty once stripped, raise ServiceRequestError, raise
\* anything else
Outcomes == { "text", "blank", "transient", "permanent" }

\* a handler that retries whatever is raised: except Exception as e
IsTransientAnyError(outcome) == outcome \in { "transient", "permanent" }

\* except ServiceRequestError as e   (line 143)
IsTransient(outcome) == outcome = "transient"

Replied(k, outcome) == [ tasks EXCEPT ![k].last = outcome ]

\* client.chat.completions.create returns or raises (lines 131-162)
TaskReply(k) ==
  /\ pc = "gather"
  /\ tasks[k].pc = "calling"
  /\ \E outcome \in Outcomes :
       LET e == ExcMessage(tasks[k].calls)
           rc == tasks[k].retry_count + 1
           t == Replied(k, outcome)
       IN  IF outcome \in { "text", "blank" }
             THEN /\ recall_items' =
                       [ recall_items EXCEPT ![k] =
                           OnSuccess(@, IF outcome = "text" THEN GeneratedText
                                                            ELSE BlankText) ]
                  /\ tasks' = [ t EXCEPT ![k].pc = "returned" ]
           ELSE IF IsTransient(outcome)
             THEN IF RetriesExceeded(rc)
                    THEN /\ recall_items' = [ recall_items EXCEPT ![k] = OnExhausted(@, e) ]
                         /\ tasks' = [ t EXCEPT ![k].pc = "returned",
                                                ![k].retry_count = rc ]
                    ELSE /\ tasks' = [ t EXCEPT ![k].pc = "sleeping",
                                                ![k].retry_count = rc,
                                                ![k].delays = @ + 1 ]
                         /\ UNCHANGED recall_items
           ELSE /\ recall_items' = [ recall_items EXCEPT ![k] = OnPermanent(@, e) ]
                /\ tasks' = [ t EXCEPT ![k].pc = "returned" ]
  /\ TaskFrame

\* asyncio.sleep(delay) returns; the loop issues the next call
TaskWake(k) ==
  /\ pc = "gather"
  /\ tasks[k].pc = "sleeping"
  /\ tasks' = [ tasks EXCEPT ![k].pc = "calling", ![k].calls = @ + 1 ]
  /\ UNCHANGED recall_items
  /\ TaskFrame

(* --------------------------------------------- process_batch, after gather *)
Dispatched == { k \in Batch : tasks[k].pc # "none" }

\* asyncio.gather(*tasks) without return_exceptions: it returns as soon as
\* one task raises
GatherDoneAtFirstRaise ==
  \/ \A k \in Dispatched : tasks[k].pc \in { "returned", "raised" }
  \/ \E k \in Dispatched : tasks[k].pc = "raised"

\* asyncio.wait(tasks, return_when=FIRST_COMPLETED): the first task that
\* returns ends the wait
GatherDoneAtFirstReturn == \E k \in Dispatched : tasks[k].pc = "returned"

\* a wait that takes only returned tasks as done: a task that raised is
\* waited for without end
GatherDoneAllReturned == \A k \in Dispatched : tasks[k].pc = "returned"

\* asyncio.gather(*tasks, return_exceptions=True) returns once every task
\* has returned or raised
GatherDone == \A k \in Dispatched : tasks[k].pc \in { "returned", "raised" }

\* the error written to batch[i] instead of to_process[i]: position k of the
\* batch takes the error of the task that is k-th among the dispatched ones
HandledAtBatchIndex ==
  [ k \in 1..N |->
      IF \E m \in Dispatched :
           /\ tasks[m].pc = "raised"
           /\ lo + Cardinality({ d \in Dispatched : d <= m }) = k
        THEN OnEscaped(recall_items[k])
        ELSE recall_items[k] ]

\* one raised task fails the whole batch: the error goes to every item of it
HandledOverBatch ==
  [ k \in 1..N |->
      IF k \in Batch /\ \E m \in Dispatched : tasks[m].pc = "raised"
        THEN OnEscaped(recall_items[k])
        ELSE recall_items[k] ]

\* the error of a raised task always written to to_process[0]
HandledToFirst ==
  [ k \in 1..N |->
      IF /\ \E m \in Dispatched : tasks[m].pc = "raised"
         /\ k \in Dispatched
         /\ \A d \in Dispatched : k <= d
        THEN OnEscaped(recall_items[k])
        ELSE recall_items[k] ]

\* for i, result in enumerate(processed_results): ...   (lines 203-208)
Handled ==
  [ k \in 1..N |->
      IF k \in Batch /\ tasks[k].pc = "raised"
        THEN OnEscaped(recall_items[k])
        ELSE recall_items[k] ]

\* the condition with its "not" lost: ... and item.error
ShouldPersistErrored(item) ==
  item.processed /\ Truthy(item.summary) /\ ErrorSet(item.error)

\* no condition at all: an entity is upserted for every item of the batch
ShouldPersistAlways(item) == TRUE

\* if item.processed and item.summary and not item.error   (line 216)
ShouldPersist(item) ==
  item.processed /\ Truthy(item.summary) /\ ~ErrorSet(item.error)

\* upserts prepared for the items of the batches so far: for item in results
PreparedOverResults(items, a, b) ==
  SelectSeq([ k \in 1..b |-> k ], LAMBDA k : ShouldPersist(items[k]))

RECURSIVE Prepared(_, _, _)
\* update_tasks after: for item in batch: if ...: update_tasks.append(...)
Prepared(items, a, b) ==
  IF a >= b THEN << >>
  ELSE LET rest == Prepared(items, a, b - 1)
       IN  IF ShouldPersist(items[b]) THEN Append(rest, b) ELSE rest

\* gather without return_exceptions: the exception of a task that raised is
\* raised again in process_batch and ends the run
HandleResultsRaising ==
  /\ pc = "gather"
  /\ GatherDone
  /\ LET s == [ Cur EXCEPT !.items = Handled ]
         prepared == Prepared(Handled, lo, hi)
     IN  IF \E k \in Dispatched : tasks[k].pc = "raised"
           THEN /\ Become(Aborted(Cur))
                /\ UNCHANGED update_tasks
           ELSE /\ update_tasks' = prepared
                /\ Become(IF Len(prepared) > 0 THEN [ s EXCEPT !.pc = "upsert" ]
                                               ELSE Returned(s))
  /\ tasks' = [ k \in 1..N |-> NewTask ]
  /\ UNCHANGED << runvars, store, table_client, pauses, write_failed >>

\* gather returns and the finished coroutines are dropped; the results are
\* handled and the upserts prepared; with nothing to write process_batch
\* returns   (lines 203-243)
HandleResults ==
  /\ pc = "gather"
  /\ GatherDone
  /\ LET s == [ Cur EXCEPT !.items = Handled ]
         prepared == Prepared(Handled, lo, hi)
     IN  /\ update_tasks' = prepared
         /\ Become(IF Len(prepared) > 0 THEN [ s EXCEPT !.pc = "upsert" ]
                                        ELSE Returned(s))
  /\ tasks' = [ k \in 1..N |-> NewTask ]
  /\ UNCHANGED << runvars, store, table_client, pauses, write_failed >>

Range(seq) == { seq[x] : x \in 1..Len(seq) }

\* a write that removes the entity when its upsert raises
UpsertedOrRemoved(ok) ==
  [ id \in Ids |->
      IF \E k \in ok : recall_items[k].recall_id = id
        THEN recall_items[CHOOSE k \in ok : recall_items[k].recall_id = id].summary
        ELSE IF \E k \in Range(update_tasks) : recall_items[k].recall_id = id
          THEN Absent
          ELSE store[id] ]

\* the table after the upserts of the positions in ok went through, the
\* others having raised: entity RowKey = item.recall_id, summary = item.summary
Upserted(ok) ==
  [ id \in Ids |->
      IF \E k \in ok : recall_items[k].recall_id = id
        THEN recall_items[CHOOSE k \in ok : recall_items[k].recall_id = id].summary
        ELSE store[id] ]

\* a persist step that writes the failure of an upsert to its item
UpsertMarkingItems ==
  /\ pc = "upsert"
  /\ \E ok \in SUBSET Range(update_tasks) :
       /\ store' = Upserted(ok)
       /\ write_failed' = (write_failed \/ ok # Range(update_tasks))
       /\ Become(Returned([ Cur EXCEPT !.items =
                   [ k \in 1..N |->
                       IF k \in Range(update_tasks) \ ok
                         THEN OnEscaped(recall_items[k])
                         ELSE recall_items[k] ] ]))
  /\ UNCHANGED << runvars, table_client, tasks, update_tasks, pauses >>

\* await asyncio.gather(*update_tasks, return_exceptions=True); return batch
Upsert ==
  /\ pc = "upsert"
  /\ \E ok \in SUBSET Range(update_tasks) :
       /\ store' = Upserted(ok)
       /\ write_failed' = (write_failed \/ ok # Range(update_tasks))
  /\ Become(Returned(Cur))
  /\ UNCHANGED << runvars, table_client, tasks, update_tasks, pauses >>

\* await asyncio.sleep(10) returns; the next iteration of the loop
Pause ==
  /\ pc = "pause"
  /\ pauses' = pauses + 1
  /\ Become(Entered(Cur, i + batch_size))
  /\ UNCHANGED << runvars, store, table_client, tasks, update_tasks,
                  write_failed >>

Next ==
  \/ GetTableClient
  \/ LoadData
  \/ Lookup
  \/ \E k \in 1..N : TaskStart(k)
  \/ \E k \in 1..N : TaskReply(k)
  \/ \E k \in 1..N : TaskWake(k)
  \/ HandleResults
  \/ Upsert
  \/ Pause

Spec == Init /\ [][Next]_vars

\* asyncio.run: the event loop resumes a coroutine whose awaited lookup,
\* call, sleep or write is over, so a run that can take a step takes one
SpecFair == Spec /\ WF_vars(Next)

(* ------------------------------------------------------------- a second run *)
\* process_food_recall_data is called again over the same blob; the table
\* keeps what the first run left in it
Rerun ==
  /\ pc = "done"
  /\ run = 1
  /\ run' = 2
  /\ prev' = [ reported |-> Len(results),
               ok |-> { k \in 1..N : IsSuccessful(recall_items[k])
                                      /\ Truthy(recall_items[k].summary) },
               failed |-> { k \in 1..N : recall_items[k].st = "Failed"
                                          /\ recall_items[k].lookup = "miss" },
               write_failed |-> write_failed ]
  /\ pc' = "start"
  /\ table_client' = FALSE
  /\ recall_items' = << >>
  /\ i' = 0
  /\ lo' = 0
  /\ hi' = 0
  /\ j' = 0
  /\ tasks' = << >>
  /\ update_tasks' = << >>
  /\ results' = << >>
  /\ batches' = << >>
  /\ pauses' = 0
  /\ write_failed' = FALSE
  /\ report' = NoReport
  /\ success' = FALSE
  /\ UNCHANGED << data, batch_size, oai_config, store, backoff >>

NextRerun == Next \/ Rerun

SpecRerun == Init /\ [][NextRerun]_vars

(* ------------------------------------------------------- the backoff delay *)
RECURSIVE Pow2(_)
Pow2(n) == IF n = 0 THEN 1 ELSE 2 * Pow2(n - 1)

\* the delay without the cap: base_delay * 2 ** (retry_count - 1) * jitter
DelayUncapped(k, f) == base_delay * Pow2(k - 1) * (JitterSteps + f)

\* delay = min(60, base_delay * (2 ** (retry_count - 1)))
\*           * (0.5 + 0.5 * (time.time() % 1))
\* for retry_count = k and time.time() % 1 = f / JitterSteps, as a number of
\* units of 1 / (2 * JitterSteps) seconds
Delay(k, f) == Min(backoff_cap, base_delay * Pow2(k - 1)) * (JitterSteps + f)

\* line 153 for any retry_count >= 1 and any reading of the clock
InitBackoff ==
  /\ data = << >>
  /\ batch_size = 1
  /\ oai_config = TRUE
  /\ store = [ id \in Ids |-> Absent ]
  /\ Entry
  /\ run = 1
  /\ prev = NoRun
  /\ retry_k \in 1..MaxRetryCount
  /\ clock \in 0..(JitterSteps - 1)
  /\ delay = NoDelay

Backoff ==
  /\ delay = NoDelay
  /\ delay' = Delay(retry_k, clock)
  /\ UNCHANGED << data, batch_size, oai_config, store, pc, table_client,
                  recall_items, i, lo, hi, j, tasks, update_tasks, results,
                  batches, pauses, write_failed, report, success, run, prev,
                  retry_k, clock >>

NextBackoff == Backoff

SpecBackoff == InitBackoff /\ [][NextBackoff]_vars

(* ================================================================ claims *)
Tasks == 1..Len(tasks)

CeilDiv(n, b) == (n + b - 1) \div b

RECURSIVE Concat(_)
Concat(ss) == IF ss = << >> THEN << >> ELSE Head(ss) \o Concat(Tail(ss))

\* the run went through its batching loop to the end
LoopDone == pc = "done" /\ report # NoReport

\* C3 (batch completeness): with batch_size >= 1 the batches handed to
\* process_batch have at most batch_size items each, their concatenation is
\* at every moment the items 1..hi in input order, and once the loop is over
\* there are ceil(N / batch_size) of them and they concatenate to all N items.
C3_BatchCompleteness ==
  batch_size >= 1 =>
    /\ \A b \in 1..Len(batches) :
         Len(batches[b]) <= batch_size /\ Len(batches[b]) >= 1
    /\ Concat(batches) = [ k \in 1..hi |-> k ]
    /\ LoopDone =>
         /\ N = Len(data)
         /\ Len(batches) = CeilDiv(N, batch_size)
         /\ Concat(batches) = [ k \in 1..N |-> k ]

\* two items in batches of one: two batches
C3_Witness ==
  LoopDone /\ batch_size = 1 /\ N = 2 /\ Len(batches) = 2

\* C4 (retry convergence): a task whose calls failed with a transient error
\* k < max_retries times is neither failed nor finished but waits or calls
\* again, and a task whose call succeeds after k transient failures leaves its
\* item Generated, summary set, no error, after exactly k + 1 calls.
C4_RetryConvergence ==
  \A x \in Tasks :
    /\ (tasks[x].last = "transient" /\ tasks[x].retry_count < max_retries) =>
         /\ tasks[x].pc \in { "sleeping", "calling" }
         /\ recall_items[x].st = "Generating"
         /\ recall_items[x].error = NoError
    /\ (tasks[x].pc = "returned" /\ tasks[x].last \in { "text", "blank" }) =>
         /\ recall_items[x].st = "Generated"
         /\ recall_items[x].processed
         /\ recall_items[x].summary # NoSummary
         /\ recall_items[x].error = NoError
         /\ tasks[x].retry_count < max_retries + 1
         /\ tasks[x].calls = tasks[x].retry_count + 1

\* success on the last call the claim covers: k = max_retries - 1
C4_Witness ==
  \E x \in Tasks :
    /\ tasks[x].pc = "returned"
    /\ tasks[x].last = "text"
    /\ tasks[x].retry_count = max_retries - 1
    /\ tasks[x].calls = max_retries
    /\ recall_items[x].st = "Generated"

\* every call the task made so far failed with a transient error
AllTransient(x) == tasks[x].calls >= 1 /\ tasks[x].retry_count = tasks[x].calls

\* C5 (retry exhaustion): a task never makes more than max_retries + 1
\* calls; while every call has failed transiently and fewer than
\* max_retries + 1 were made it waits for the next one; when call
\* max_retries + 1 fails transiently too the item is Failed, without summary,
\* and its error is the error of that last call.
C5_RetryExhaustion ==
  \A x \in Tasks :
    /\ tasks[x].calls <= max_retries + 1
    /\ (AllTransient(x) /\ tasks[x].calls <= max_retries) =>
         tasks[x].pc = "sleeping" /\ recall_items[x].error = NoError
    /\ (AllTransient(x) /\ tasks[x].calls = max_retries + 1) =>
         /\ tasks[x].pc = "returned"
         /\ recall_items[x].st = "Failed"
         /\ recall_items[x].summary = NoSummary
         /\ recall_items[x].error =
              MaxRetriesError(recall_items[x].recall_id, ExcMessage(max_retries + 1))
    /\ (tasks[x].pc = "returned" /\ tasks[x].last = "transient") =>
         tasks[x].calls = max_retries + 1 /\ AllTransient(x)

C5_Witness ==
  \E x \in Tasks :
    /\ tasks[x].pc = "returned"
    /\ tasks[x].last = "transient"
    /\ tasks[x].calls = max_retries + 1
    /\ recall_items[x].st = "Failed"

\* C6 (permanent failure short-circuit): once a call has failed with an error
\* that is not transient the task has returned, its item is Failed with the
\* error of that call, no call followed it and no delay was waited for it;
\* every call after the first follows a transient failure and a delay.
C6_PermanentShortCircuit ==
  \A x \in Tasks :
    /\ tasks[x].last = "permanent" =>
         /\ tasks[x].pc = "returned"
         /\ recall_items[x].st = "Failed"
         /\ recall_items[x].error =
              GeneratingError(recall_items[x].recall_id, ExcMessage(tasks[x].calls))
         /\ tasks[x].retry_count = tasks[x].calls - 1
         /\ tasks[x].delays = tasks[x].calls - 1
    /\ tasks[x].pc = "sleeping" => tasks[x].last = "transient"
    /\ tasks[x].calls >= 2 =>
         /\ tasks[x].retry_count >= tasks[x].calls - 1
         /\ tasks[x].delays >= tasks[x].calls - 1

\* a permanent failure of the first call
C6_Witness ==
  \E x \in Tasks :
    /\ tasks[x].last = "permanent"
    /\ tasks[x].calls = 1
    /\ tasks[x].delays = 0
    /\ recall_items[x].st = "Failed"

Terminal == { "CacheHit", "Generated", "Failed", "Skipped" }
HasSummary(item) == item.summary # NoSummary
HasError(item) == item.error # NoError

\* C2 (exclusivity): every item in a terminal state has exactly one of
\* summary and error: the summary and no error iff it is CacheHit or
\* Generated, the error and no summary iff it is Failed or Skipped.
C2_Exclusivity ==
  \A x \in 1..N :
    recall_items[x].st \in Terminal =>
      /\ HasSummary(recall_items[x]) # HasError(recall_items[x])
      /\ (HasSummary(recall_items[x]) /\ ~HasError(recall_items[x]))
           <=> recall_items[x].st \in { "CacheHit", "Generated" }
      /\ (HasError(recall_items[x]) /\ ~HasSummary(recall_items[x]))
           <=> recall_items[x].st \in { "Failed", "Skipped" }

\* a finished run with a cache hit and a failure side by side
C2_Witness ==
  /\ LoopDone
  /\ \E x, y \in 1..N :
       /\ recall_items[x].st = "CacheHit"
       /\ recall_items[y].st = "Failed"
       /\ HasError(recall_items[y])

\* the lookup of item x is over and the table has not been written since
LookedUpNow(x) ==
  \/ pc = "lookup" /\ x \in Batch /\ x < j
  \/ pc = "gather" /\ x \in Batch

\* C9 (cache hit excludes generation): an item whose lookup returned a
\* stored summary is CacheHit with exactly that summary, and no generation
\* task is ever started and no call ever issued for it; and a lookup that
\* returns while the table holds a summary always ends in such a hit.
C9_CacheHitExcludesGeneration ==
  \A x \in 1..N :
    /\ recall_items[x].lookup = "hit" =>
         /\ recall_items[x].st = "CacheHit"
         /\ recall_items[x].summary = store[recall_items[x].recall_id]
         /\ HasSummary(recall_items[x])
         /\ tasks[x].pc = "none"
         /\ tasks[x].calls = 0
    /\ (LookedUpNow(x) /\ Found(recall_items[x].recall_id)
          /\ recall_items[x].lookup # "lost") =>
         recall_items[x].lookup = "hit"

\* a hit beside an item of the same batch that is being generated
C9_Witness ==
  \E x, y \in 1..N :
    /\ x \in Batch /\ y \in Batch
    /\ recall_items[x].lookup = "hit"
    /\ recall_items[x].summary = CachedText
    /\ tasks[y].calls = 2

\* the state in which the outcomes of the calls of a task leave its item
ExpectedState(t) ==
  IF t.pc = "raised" THEN "Failed"
  ELSE IF t.last \in { "text", "blank" } THEN "Generated"
  ELSE IF t.last \in { "transient", "permanent" } THEN "Failed"
  ELSE "Skipped"

\* C10 (failure isolation): while the tasks of a batch run, a step of the
\* task of x (a reply, a retry, a failure, an exception) changes neither the
\* task nor the item of any other y; and gather returns only when every task
\* of the batch has returned or raised, each item then being in the state
\* that the outcomes of its own calls determine.
C10_FailureIsolation ==
  [][ pc = "gather" =>
        /\ \A x, y \in Tasks :
             (x # y /\ tasks'[x] # tasks[x] /\ pc' = "gather") =>
               tasks'[y] = tasks[y] /\ recall_items'[y] = recall_items[y]
        /\ pc' # "gather" =>
             \A y \in Dispatched :
               /\ tasks[y].pc \in { "returned", "raised" }
               /\ recall_items'[y].st = ExpectedState(tasks[y]) ]_vars

\* x has failed for good or raised while y, after a retry of its own, is
\* Generated
C10_Witness ==
  /\ pc = "gather"
  /\ \E x, y \in Dispatched :
       /\ x # y
       /\ tasks[x].pc = "raised" \/ tasks[x].last = "permanent"
       /\ tasks[y].pc = "returned"
       /\ tasks[y].retry_count = 1
       /\ recall_items[y].st = "Generated"

\* C8 (persist selectivity), as claimed: the upserts prepared for a batch
\* are those of exactly the items Generated in this batch.
C8_PersistSelectivity ==
  pc = "upsert" =>
    Range(update_tasks) = { k \in Batch : recall_items[k].st = "Generated" }

\* C7 (store unavailability), as claimed: when get_table_client returns no
\* client, every record of the input ends as a Skipped item with the skip
\* reason, counted as skipped and not as failed, and no call is issued.
C7_StoreUnavailable ==
  (pc = "done" /\ ~table_client /\ Len(data) > 0) =>
    /\ N = Len(data)
    /\ \A x \in 1..N :
         /\ recall_items[x].st = "Skipped"
         /\ recall_items[x].error = SkipReason
    /\ report.skipped = Len(data)
    /\ report.failed = 0
    /\ \A x \in Tasks : tasks[x].calls = 0

\* the first run reported on every record and none of its upserts raised
FirstRunPersisted ==
  /\ run = 2
  /\ Len(data) > 0
  /\ prev.reported = Len(data)
  /\ ~prev.write_failed

Successful == { x \in 1..N : recall_items[x].st \in { "CacheHit", "Generated" } }

C12_OutputOrder ==
  batch_size >= 1 =>
    /\ \A x \in 1..Len(results) :
         /\ results[x] = x
         /\ recall_items[results[x]].recall_id = data[x]
    /\ LoopDone => Len(results) = Len(data)

\* both items of one batch went through generation, the first one using up
\* its retries while the second was free to finish at any moment before
C12_Witness ==
  /\ LoopDone
  /\ batches = << << 1, 2 >> >>
  /\ results = << 1, 2 >>
  /\ recall_items[1].error = MaxRetriesError(1, ExcMessage(max_retries + 1))
  /\ recall_items[2].st = "Generated"

\* C13 (invalid batch size), as claimed: a run with batch_size < 1 is
\* rejected as a configuration error before any processing: no lookup, no
\* generation call and no store write happens, and the run (over a
\* non-empty input) ends as an error and not as a completed run with a
\* report.
C13_InvalidBatchRejected ==
  (batch_size < 1 /\ Len(data) > 0) =>
    /\ batches = << >>
    /\ \A x \in 1..N : /\ recall_items[x] = NewItem(data[x])
                       /\ tasks[x] = NewTask
    /\ update_tasks = << >>
    /\ pc = "done" => (~success /\ report = NoReport)

\* C14 (fail-fast on fatal configuration), as claimed: when the generation
\* credentials or the storage connection are missing, the run (over a
\* non-empty input, with a valid batch size) aborts before any per-item
\* work: no batch is entered, no item is looked up or touched, no generation
\* call is issued, and the run ends without a report.
C14_FailFast ==
  ( /\ batch_size >= 1
    /\ Len(data) > 0
    /\ ~oai_config \/ (pc # "start" /\ ~table_client) ) =>
    /\ batches = << >>
    /\ \A x \in 1..N : /\ recall_items[x] = NewItem(data[x])
                       /\ tasks[x].calls = 0
    /\ pc = "done" => (~success /\ report = NoReport)

\* the items of the batch last persisted that were Generated with a summary
\* to write, and those of them whose record is in the table
GeneratedInBatch ==
  { k \in Batch : /\ recall_items[k].st = "Generated"
                  /\ Truthy(recall_items[k].summary) }
WrittenOfBatch ==
  { k \in GeneratedInBatch :
      store[recall_items[k].recall_id] = recall_items[k].summary }

\* C15 (atomic per-batch persistence), as claimed: once process_batch has
\* returned, the table holds the records of all the items Generated in the
\* batch or of none of them.
C15_AtomicPersist ==
  pc \in { "pause", "done" } =>
    WrittenOfBatch = GeneratedInBatch \/ WrittenOfBatch = {}

C17_RunReport ==
  LoopDone =>
    /\ report.successful = Cardinality(Successful)
    /\ report.failed =
         Cardinality({ x \in 1..N : recall_items[x].st = "Failed" })
    /\ report.skipped =
         Cardinality({ x \in 1..N : recall_items[x].st = "Skipped" })
    /\ { x \in Range(results) : ErrorSet(recall_items[x].error) } =
         { x \in 1..N : recall_items[x].st \in { "Failed", "Skipped" } }

\* C18 (lookup before generation): a generation task exists, and a call is
\* in flight, only while process_batch is at gather, only for an item of the
\* current batch whose lookup was made, and only when the lookup of every
\* item of that batch was made; while the lookups of a batch are running no
\* task of it exists.
C18_LookupBeforeGeneration ==
  /\ \A k \in 1..N :
       (tasks[k].pc # "none" \/ tasks[k].calls > 0) =>
         /\ pc = "gather"
         /\ k \in Batch
         /\ \A x \in Batch : recall_items[x].lookup # "none"
  /\ pc = "lookup" =>
       /\ \A x \in Batch : (recall_items[x].lookup # "none") <=> (x < j)
       /\ \A k \in 1..N : tasks[k] = NewTask

\* a call is in flight for the first item of a batch of two, the second one
\* having been found in the table
C18_Witness ==
  /\ pc = "gather"
  /\ Batch = { 1, 2 }
  /\ tasks[1].pc = "calling"
  /\ recall_items[1].lookup = "miss"
  /\ recall_items[2].lookup = "hit"

\* C19 (strictly sequential batches): at every moment only the current
\* batch is active: the items after it are untouched and have no task, the
\* items before it are terminal and already in results, tasks and prepared
\* upserts are of items of the current batch only, and a batch is entered
\* only when results holds every item of the batches before it, that is
\* after their persist step returned.
C19_SequentialBatches ==
  /\ \A x \in 1..N :
       /\ x > hi => recall_items[x] = NewItem(data[x]) /\ tasks[x] = NewTask
       /\ tasks[x].pc # "none" => x \in Batch /\ pc = "gather"
       /\ (x <= lo /\ Len(batches) > 0) =>
            /\ recall_items[x].st \in Terminal
            /\ x \in Range(results)
  /\ pc = "upsert" => Range(update_tasks) \subseteq Batch
  /\ pc \in { "lookup", "gather", "upsert" } =>
       /\ Len(batches) > 0
       /\ batches[Len(batches)] = BatchPositions(lo, hi)
       /\ Len(results) = lo
       /\ pauses = Len(batches) - 1

\* the second batch is at its persist step while the first is over
C19_Witness ==
  /\ pc = "upsert"
  /\ Len(batches) = 2
  /\ lo = 1
  /\ update_tasks = << 2 >>
  /\ recall_items[1].st \in { "Generated", "CacheHit" }

\* C20 (inter-batch pacing): a pause is made after a batch only when another
\* batch follows: while the run sleeps the batch just returned is not the
\* last one and its items are in results; the number of pauses made is
\* always the number of batches entered minus one; and a finished run of M
\* batches has made M - 1 pauses (none when there is no batch).
C20_Pacing ==
  /\ pc = "pause" =>
       /\ hi < N
       /\ Len(results) = hi
       /\ pauses = Len(batches) - 1
  /\ Len(batches) > 0 => pauses = Len(batches) - 1
  /\ Len(batches) = 0 => pauses = 0
  /\ (LoopDone /\ batch_size >= 1) =>
       /\ Len(batches) = CeilDiv(N, batch_size)
       /\ pauses = (IF N = 0 THEN 0 ELSE CeilDiv(N, batch_size) - 1)
       /\ (N > 0 => hi = N)

\* a finished run of two batches with its single pause
C20_Witness ==
  /\ LoopDone
  /\ Len(batches) = 2
  /\ pauses = 1

\* the transitions of the item state machine as the specification lists them
ListedTransitions ==
  { << "Pending", "CacheHit" >>, << "Pending", "Generating" >>,
    << "Generating", "Generated" >>, << "Generating", "Failed" >>,
    << "Pending", "Skipped" >> }

\* what never changes once an item is terminal
Outcome(item) == << item.st, item.summary, item.error, item.processed >>

\* C21 (item lifecycle), as claimed: every change of the state of an item
\* is one of the listed transitions, and a terminal item keeps its state,
\* summary and error for the rest of the run.
C21_Lifecycle ==
  [][ \A x \in 1..N :
        /\ recall_items'[x].st # recall_items[x].st =>
             << recall_items[x].st, recall_items'[x].st >> \in ListedTransitions
        /\ recall_items[x].st \in Terminal =>
             Outcome(recall_items'[x]) = Outcome(recall_items[x]) ]_vars

\* C21, amended: every change of the state of an item is one of the listed
\* transitions or Pending -> Failed, the latter only when process_batch
\* records the exception of a generation task that raised before its first
\* call; the lookup changes an item at most once (Pending -> CacheHit), the
\* generation at most once, and a terminal item keeps its state, summary
\* and error for the rest of the run.
C21_LifecycleWithEscape ==
  [][ \A x \in 1..N :
        /\ recall_items'[x].st # recall_items[x].st =>
             \/ << recall_items[x].st, recall_items'[x].st >> \in ListedTransitions
             \/ /\ recall_items[x].st = "Pending"
                /\ recall_items'[x].st = "Failed"
                /\ tasks[x].pc = "raised"
                /\ tasks[x].calls = 0
                /\ recall_items'[x].error = EscapedError
        /\ recall_items'[x].st = "CacheHit" /\ recall_items[x].st # "CacheHit" =>
             pc = "lookup" /\ x = j
        /\ recall_items[x].st \in Terminal =>
             Outcome(recall_items'[x]) = Outcome(recall_items[x]) ]_vars

\* a finished run with an item failed by an escaped exception beside a
\* Generated item of the same batch
C21_Witness ==
  /\ LoopDone
  /\ \E x, y \in 1..N :
       /\ recall_items[x].st = "Failed"
       /\ recall_items[x].error = EscapedError
       /\ recall_items[y].st = "Generated"
       /\ x \in Batch /\ y \in Batch

\* the tasks that are running: created and neither returned nor raised
InFlight == { k \in 1..N : tasks[k].pc \in { "ready", "calling", "sleeping" } }

\* C22 (no shared mutation, no double processing): a step of the task of k
\* changes no item but that of k; when the results of a batch are handled an
\* item changes only if its own task raised; and a task is made for an item
\* only while the item is Pending and has no task, every item that had a
\* task being terminal afterwards, so that no item is given to a task twice.
C22_NoSharedMutation ==
  /\ [][ \A k \in 1..N :
           /\ (pc = "gather" /\ pc' = "gather" /\ tasks'[k] # tasks[k]) =>
                \A y \in 1..N \ { k } : recall_items'[y] = recall_items[y]
           /\ (pc = "gather" /\ pc' # "gather"
                 /\ recall_items'[k] # recall_items[k]) =>
                tasks[k].pc = "raised"
           /\ (tasks[k].pc = "none" /\ tasks'[k].pc # "none") =>
                /\ recall_items'[k].st = "Pending"
                /\ ~recall_items'[k].processed
                /\ recall_items'[k].error = NoError ]_vars
  /\ [](\A k \in 1..N :
          /\ tasks[k].pc = "returned" => recall_items[k].st \in Terminal
          /\ (pc \in { "upsert", "pause", "done" } /\ k <= hi) =>
               recall_items[k].st \in Terminal)

\* both tasks of a batch are between calls, each after a failure of its own
C22_Witness ==
  /\ pc = "gather"
  /\ Batch = { 1, 2 }
  /\ tasks[1].pc = "sleeping"
  /\ tasks[2].pc = "sleeping"
  /\ tasks[2].retry_count = 2

\* C23 (bounded fan-out): while a batch is at gather its tasks are exactly
\* those of its items that the lookup did not resolve, one each, hence at
\* most batch_size of them; the tasks in flight are among them, and outside
\* gather no task is in flight.
C23_BoundedFanOut ==
  /\ InFlight \subseteq Dispatched
  /\ pc # "gather" => InFlight = {}
  /\ pc = "gather" =>
       /\ Dispatched = { k \in Batch : recall_items[k].lookup # "hit" }
       /\ Cardinality(Dispatched) <= batch_size
       /\ Cardinality(InFlight) <= Cardinality(Dispatched)

\* a batch of two with one item found in the table and one task in flight
C23_Witness ==
  /\ pc = "gather"
  /\ batch_size = 2
  /\ Batch = { 1, 2 }
  /\ recall_items[1].lookup = "hit"
  /\ InFlight = { 2 }
  /\ Dispatched = { 2 }

\* whether the task of k ended in a failure of any kind
TaskFailed(k) ==
  \/ tasks[k].pc = "raised"
  \/ tasks[k].pc = "returned" /\ tasks[k].last \in { "transient", "permanent" }

\* C24 (per-item errors do not propagate): whatever the tasks of a batch
\* ended in, process_batch goes on to its persist step or returns, never
\* ending the run with an exception; the error of every failed task is on
\* its item; once a batch was entered the run ends only with its loop over
\* all items done and its report made, and every item with an error is in
\* results and counted as failed.
C24_ErrorsDoNotPropagate ==
  /\ [][ (pc = "gather" /\ pc' # "gather") =>
           /\ pc' \in { "upsert", "pause", "done" }
           /\ pc' = "done" => report' # NoReport
           /\ \A k \in Dispatched :
                TaskFailed(k) => /\ HasError(recall_items'[k])
                                 /\ recall_items'[k].st = "Failed" ]_vars
  /\ []((pc = "done" /\ Len(batches) > 0) =>
          /\ LoopDone
          /\ Len(results) = N
          /\ report.failed =
               Cardinality({ x \in 1..N : HasError(recall_items[x]) }))

\* a run of two batches that ended with its report although the only item
\* of the first batch failed by an escaped exception
C24_Witness ==
  /\ LoopDone
  /\ Len(batches) = 2
  /\ recall_items[1].error = EscapedError
  /\ recall_items[2].st = "Generated"
  /\ report.failed = 1

\* C25 (cache monotonicity): no step of any run removes a record: a key
\* that has a summary in the table has one after every step, and what it
\* holds is never an empty summary.
C25_CacheMonotone ==
  [][ \A id \in Ids : store[id] # Absent =>
        /\ store'[id] # Absent
        /\ Truthy(store'[id]) ]_vars

\* the second run is over, the table holding a record an earlier run left
\* and one the pipeline wrote
C25_Witness ==
  /\ run = 2
  /\ LoopDone
  /\ \E a, b \in Ids : store[a] = CachedText /\ store[b] = GeneratedText

\* C28 (a lookup error is a miss): an item whose query raised although the
\* table holds its summary is left as it was made, with no error and not
\* resolved, while the lookups of its batch go on; every item of the batch
\* is looked up before gather; at gather the item has a task like any miss;
\* and whatever it ends as, it is never CacheHit, it is Skipped only for
\* missing generation configuration, and Failed only with an error of its
\* generation task.
C28_LookupErrorIsMiss ==
  \A x \in 1..N :
    recall_items[x].lookup = "lost" =>
      /\ (pc = "lookup" /\ x \in Batch) =>
           recall_items[x] = [ NewItem(data[x]) EXCEPT !.lookup = "lost" ]
      /\ (pc = "gather" /\ x \in Batch) =>
           /\ x \in Dispatched
           /\ \A y \in Batch : recall_items[y].lookup # "none"
      /\ recall_items[x].st # "CacheHit"
      /\ recall_items[x].error # SkipReason
      /\ recall_items[x].st = "Skipped" => ~oai_config
      /\ recall_items[x].st = "Failed" =>
           \/ recall_items[x].error = EscapedError
           \/ \E e \in 1..(max_retries + 1) :
                recall_items[x].error \in
                  { MaxRetriesError(recall_items[x].recall_id, ExcMessage(e)),
                    GeneratingError(recall_items[x].recall_id, ExcMessage(e)) }

\* the query of the first item raised, that of the second found its record,
\* and a generation call is in flight for the first
C28_Witness ==
  /\ pc = "gather"
  /\ Batch = { 1, 2 }
  /\ recall_items[1].lookup = "lost"
  /\ recall_items[2].lookup = "hit"
  /\ tasks[1].pc = "calling"

\* C29 (fan-in before persist): the table changes only in the persist step
\* of a batch, and that step is reached only when every item of the batch
\* is terminal and no task is in flight; so while any task of a batch is
\* in flight, or the batch is at its lookups, the table holds none of the
\* summaries generated in this batch.
C29_FanInBeforePersist ==
  /\ [][ store' # store => pc = "upsert" ]_vars
  /\ [](/\ pc = "upsert" =>
             /\ InFlight = {}
             /\ \A x \in Batch : recall_items[x].st \in Terminal
        /\ pc \in { "lookup", "gather", "upsert" } =>
             \A x \in Batch :
               store[recall_items[x].recall_id] # GeneratedText)

\* one task of the batch has its summary while the other waits to retry,
\* and nothing of the batch is in the table
C29_Witness ==
  /\ pc = "gather"
  /\ Batch = { 1, 2 }
  /\ recall_items[1].st = "Generated"
  /\ recall_items[1].summary = GeneratedText
  /\ tasks[2].pc = "sleeping"
  /\ store[recall_items[1].recall_id] = Absent

\* item x ended Failed in the first run, whose lookup found no record of its
\* id
FailedBefore(x) ==
  /\ run = 2
  /\ x \in prev.failed

\* the second run has not looked item x up yet
NotLookedUp(x) ==
  \/ Len(recall_items) = 0
  \/ recall_items[x].lookup = "none"

\* a step that writes a summary under a key writes the summary of an item
\* with that id that is Generated, processed, without error and not empty
WritesOfResolved ==
  \A id \in Ids : store'[id] # store[id] =>
    \E x \in 1..Len(recall_items) :
      /\ recall_items[x].recall_id = id
      /\ recall_items[x].st = "Generated"
      /\ IsSuccessful(recall_items[x])
      /\ Truthy(recall_items[x].summary)
      /\ store'[id] = recall_items[x].summary

\* the first run wrote nothing for x, and in the second run the lookup of x
\* is a miss and x is handed to generation
MissAndDispatched(x) ==
  /\ NotLookedUp(x) => store[data[x]] = Absent
  /\ ~NotLookedUp(x) =>
       /\ recall_items[x].lookup = "miss"
       /\ recall_items[x].st # "CacheHit"
  /\ (pc = "gather" /\ x \in Batch) => x \in Dispatched

\* the call of the second run: once the tasks of the batch of x are over a
\* generation call has been issued for x
CalledAgain(x) ==
  (pc = "gather" /\ x \in Batch /\ GatherDone) => tasks[x].calls >= 1

\* the same, but for a task that raised before its first call
CalledAgainUnlessEscaped(x) ==
  (pc = "gather" /\ x \in Batch /\ GatherDone) =>
    \/ tasks[x].calls >= 1
    \/ tasks[x].pc = "raised" /\ recall_items[x].st = "Pending"

\* C30 as it is stated: an item that ended Failed in the first run has no
\* record in the table, so in the second run its lookup is a miss and, once
\* the tasks of its batch are over, a generation call has been issued for it;
\* and every summary the pipeline writes is that of a resolved item.
C30_FailedRetried ==
  /\ [][WritesOfResolved]_vars
  /\ [](\A x \in 1..N : FailedBefore(x) =>
          MissAndDispatched(x) /\ CalledAgain(x))

\* C30 (failed items are retried by the next run), with the task that raises
\* before its first call: an item that ended Failed in the first run has no
\* record in the table, so in the second run its lookup is a miss and a
\* generation task is started for it, which issues a call unless it raises
\* before it does; and every summary the pipeline writes is that of a
\* resolved item.
C30_FailedRetriedUnlessEscaped ==
  /\ [][WritesOfResolved]_vars
  /\ [](\A x \in 1..N : FailedBefore(x) =>
          MissAndDispatched(x) /\ CalledAgainUnlessEscaped(x))

\* the second run has issued a call for an item the first run failed on,
\* while the item the first run resolved is a cache hit
C30_Witness ==
  /\ run = 2
  /\ pc = "gather"
  /\ \E x \in Batch :
       /\ x \in prev.failed
       /\ recall_items[x].lookup = "miss"
       /\ store[data[x]] = Absent
       /\ tasks[x].pc = "calling"
  /\ \E y \in prev.ok : store[data[y]] = GeneratedText

\* C27 (run termination): when every lookup, call, sleep and write that is
\* awaited comes back, a run with batch_size >= 1 reaches its end; at the end
\* of the run every item it made is CacheHit, Generated,
\* Failed or Skipped, none Pending or Generating; and no task ever makes more
\* than max_retries + 1 calls or sleeps more than max_retries times.
C27_RunTermination ==
  /\ (batch_size >= 1) => <>(pc = "done")
  /\ []((batch_size >= 1 /\ pc = "done") =>
          /\ LoopDone => Len(recall_items) = N
          /\ \A x \in 1..Len(recall_items) : recall_items[x].st \in Terminal)
  /\ [](\A k \in Tasks :
          tasks[k].calls <= max_retries + 1 /\ tasks[k].delays <= max_retries)

\* a run over two items ended; one of them used up all its calls
C27_Witness ==
  /\ batch_size >= 1
  /\ LoopDone
  /\ Len(recall_items) = MaxItems
  /\ \E x \in 1..Len(recall_items) :
       /\ recall_items[x].st = "Failed"
       /\ recall_items[x].error =
            MaxRetriesError(recall_items[x].recall_id, ExcMessage(max_retries + 1))
  /\ \E x \in 1..Len(recall_items) : recall_items[x].st = "Generated"

\* one second, and the cap of 60 seconds, in the unit of delay
Second == 2 * JitterSteps

\* C26 (backoff delay bounds): the delay computed for retry k >= 1 is at
\* least half of min(60, 2^k) seconds, strictly less than min(60, 2^k)
\* seconds, and never as much as 60 seconds, whatever the clock reads.
C26_BackoffBounds ==
  delay # NoDelay =>
    /\ 2 * delay >= Min(60, Pow2(retry_k)) * Second
    /\ delay < Min(60, Pow2(retry_k)) * Second
    /\ delay < 60 * Second
    /\ delay = Min(60, Pow2(retry_k)) * (JitterSteps + clock)

\* a delay computed where the cap applies, with the largest jitter
C26_Witness ==
  /\ delay # NoDelay
  /\ retry_k >= 6
  /\ clock = JitterSteps - 1
  /\ delay = 60 * (2 * JitterSteps - 1)

====
